---- MODULE Spec2Model ----
(***************************************************************************)
(* Model of the scheduled polling and notification engine of the YouTube   *)
(* tracker bot in src/main.py: the SQLite store (videos, intervals,        *)
(* milestones, upcoming_alerts), the two one-minute loops kst_tracker and  *)
(* interval_checker, the slash commands that write to the store, and the   *)
(* backup/restore of the database file around a process restart.           *)
(*                                                                         *)
(* Time is counted in whole minutes (one loop iteration per minute); an    *)
(* interval's "hours" column is kept in minutes.  A coroutine is suspended *)
(* only at a stats fetch and at a channel send: db_execute holds no real   *)
(* await, so the code between two such points is one atomic step.  Each    *)
(* action below is "resume from that await with its result, run to the     *)
(* next await".                                                            *)
(***************************************************************************)
EXTENDS Integers, Sequences, FiniteSets, TLC

\* ---------------------------------------------------------------- bounds
MaxTime == 3          \* minutes the loops tick after the start
MaxCmds == 3          \* commands and channel deletions in one behaviour
MaxBoots == 1         \* process restarts in one behaviour
MaxRows == 11         \* videos of one guild in an upcoming report
MaxCalls == 2         \* commands in one behaviour of the command boundary

\* ------------------------------------------------------- program constants
Million == 1000000
UpcomingWindow == 100000
MinutesPerHour == 60
HoursPerDay == 24
DigestCap == 10       \* guild_upcoming[:10]
PageSize == 10        \* page_size of /upcoming
MaxInputLen == 500    \* len(url_or_id) > 500
IdLen == 11           \* [a-zA-Z0-9_-]{11}

\* the loops start at 11:59 of the reference zone: the next minute is a checkpoint
StartMinute == 12 * MinutesPerHour - 1

\* ------------------------------------------------------------ input sets
Guilds == <<"g1", "g2">>                      \* bot.guilds, in iteration order
GuildSet == {Guilds[i] : i \in 1..Len(Guilds)}
Videos == {"v1", "v2"}
VideosOf(g) == IF g = "g1" THEN Videos ELSE {"v1"}   \* videos the commands of a guild name
Pairs == {p \in GuildSet \X Videos : p[2] \in VideosOf(p[1])}   \* <<guild_id, video_id>>
Chan(g) == IF g = "g1" THEN "c1" ELSE "c2"    \* the text channel of a guild
ViewSamples == {950000, 2300000}              \* view counts a fetch may return
HoursSamples == {1, 2}                        \* /setinterval periods, in minutes

NULL == -1            \* SQL NULL in last_interval_run
Unavailable == -2     \* fetch_video_stats returning (None, None)
NoChannel == ""       \* alert_channel of a stub video; ping after /removemilestones

VARIABLES
    videos,           \* table videos:     <<guild, video>> -> [alert_channel]
    rowids,           \* table videos: guild -> its keys in rowid (insertion) order
    intervals,        \* table intervals:  <<guild, video>> -> [hours, last_interval_views, last_interval_run, kst_last_views]
    milestones,       \* table milestones: <<guild, video>> -> [ping, last_million]
    upcoming_alerts,  \* table upcoming_alerts: guild -> [channel_id]
    backup,           \* content of backup.db
    liveChans,        \* channels guild.get_channel still finds
    clock,            \* current minute of the reference zone
    kstRan, ivRan,    \* this minute's iteration of each loop has started
    kst,              \* kst_tracker coroutine: where it is suspended, its locals
    iv,               \* interval_checker coroutine
    cmd,              \* the long-running command in flight (forcecheck, viewsall, checkintervals)
    ncmd,             \* commands issued so far
    boots,            \* restarts so far
    msSent,           \* history: milestone notifications delivered, <<pair, tier>> -> count
    owed,             \* history: <<pair, minute>> of interval fetches that came back unavailable
    lastOk,           \* history: <<pair, minute>> of the last completed interval cycle
    ret               \* what the call under examination gave back to its caller

db == <<videos, rowids, intervals, milestones, upcoming_alerts>>
vars == <<videos, rowids, intervals, milestones, upcoming_alerts, backup, liveChans, clock,
          kstRan, ivRan, kst, iv, cmd, ncmd, boots, msSent, owed, lastOk, ret>>

\* ------------------------------------------------------------- the store
EmptyTable == [x \in {} |-> 0]
Upsert(tbl, key, row) == [k \in DOMAIN tbl \cup {key} |-> IF k = key THEN row ELSE tbl[k]]
Delete(tbl, key) == [k \in DOMAIN tbl \ {key} |-> tbl[k]]

\* column defaults of CREATE TABLE intervals / milestones
IntervalDefaults == [hours |-> 0, last_interval_views |-> 0,
                     last_interval_run |-> NULL, kst_last_views |-> 0]
MilestoneDefaults == [ping |-> NoChannel, last_million |-> 0]

Tier(views) == views \div Million

\* INSERT INTO videos gives the row the next rowid; DELETE takes it out.  The
\* queries below scan videos in rowid order (SQLite's plan for each is a scan of
\* videos, with intervals looked up by primary key).
Inserted(ids, p) == IF \E i \in 1..Len(ids[p[1]]) : ids[p[1]][i] = p THEN ids
                    ELSE [ids EXCEPT ![p[1]] = Append(@, p)]
Deleted(ids, p) == [ids EXCEPT ![p[1]] = SelectSeq(@, LAMBDA x : x # p)]

\* ensure_video_exists: a stub row with empty title and channel columns
EnsureVideo(tbl, p) == IF p \in DOMAIN tbl THEN tbl ELSE Upsert(tbl, p, [alert_channel |-> NoChannel])

Idle == [pc |-> "idle"]

\* an exception inside a tick reaches the "except Exception" that wraps the whole
\* body of kst_tracker and of interval_checker: it is logged and the handler returns
TickAbortedMut == [pc |-> "stopped"]
TickAborted == Idle

NoRet == [op |-> "none"]

Init ==
    /\ videos = EmptyTable
    /\ rowids = [g \in GuildSet |-> <<>>]
    /\ intervals = EmptyTable
    /\ milestones = EmptyTable
    /\ upcoming_alerts = EmptyTable
    /\ backup = <<EmptyTable, [g \in GuildSet |-> <<>>], EmptyTable, EmptyTable, EmptyTable>>
    /\ liveChans = {Chan(g) : g \in GuildSet}
    /\ clock = StartMinute
    /\ kstRan = FALSE
    /\ ivRan = FALSE
    /\ kst = Idle
    /\ iv = Idle
    /\ cmd = Idle
    /\ ncmd = 0
    /\ boots = 0
    /\ msSent = EmptyTable
    /\ owed = {}
    /\ lastOk = {}
    /\ ret = NoRet

\* ------------------------------------------------- commands without an await
\* The budget counts the commands that change the store; one that changes
\* nothing leaves the state as it is.
Spend == ncmd' = IF db' = db /\ liveChans' = liveChans THEN ncmd ELSE ncmd + 1
CanSpend == ncmd < MaxCmds
ProcsUnchanged == UNCHANGED <<backup, clock, kstRan, ivRan, kst, iv, cmd, boots, ret>>

ForgetSent(p) == [k \in {x \in DOMAIN msSent : x[1] # p} |-> msSent[k]]
ForgetOwed(p) == {x \in owed : x[1] # p}
ForgetOk(p) == {x \in lastOk : x[1] # p}

\* /addvideo
AddVideo(g, v) ==
    LET p == <<g, v>> IN
    /\ CanSpend
    /\ Chan(g) \in liveChans
    /\ videos' = IF p \in DOMAIN videos THEN videos
                 ELSE Upsert(videos, p, [alert_channel |-> Chan(g)])
    /\ rowids' = Inserted(rowids, p)
    /\ UNCHANGED <<intervals, milestones, upcoming_alerts, liveChans, msSent, owed, lastOk>>
    /\ Spend
    /\ ProcsUnchanged

\* DELETE FROM milestones WHERE video_id=? AND guild_id=?
DeleteMilestonesMut(ms, p) == ms
DeleteMilestones(ms, p) == Delete(ms, p)

\* DELETE FROM intervals WHERE video_id=? AND guild_id=?
DeleteIntervalsMut(ivs, p) == [k \in {x \in DOMAIN ivs : x[2] # p[2]} |-> ivs[k]]
DeleteIntervals(ivs, p) == Delete(ivs, p)

\* /removevideo
RemoveVideo(g, v) ==
    LET p == <<g, v>> IN
    /\ CanSpend
    /\ videos' = Delete(videos, p)
    /\ rowids' = Deleted(rowids, p)
    /\ intervals' = DeleteIntervals(intervals, p)
    /\ milestones' = DeleteMilestones(milestones, p)
    /\ msSent' = ForgetSent(p)
    /\ owed' = ForgetOwed(p)
    /\ lastOk' = ForgetOk(p)
    /\ UNCHANGED <<upcoming_alerts, liveChans>>
    /\ Spend
    /\ ProcsUnchanged

\* the row /setmilestone writes: INSERT OR REPLACE names video_id, guild_id and
\* ping only, so last_million takes its column default
MilestoneRowMut(old, ch) == [old EXCEPT !.ping = ch]
MilestoneRow(old, ch) == [MilestoneDefaults EXCEPT !.ping = ch]

\* /setmilestone
SetMilestone(g, v) ==
    LET p == <<g, v>>
        old == IF p \in DOMAIN milestones THEN milestones[p] ELSE MilestoneDefaults IN
    /\ CanSpend
    /\ Chan(g) \in liveChans
    /\ videos' = EnsureVideo(videos, p)
    /\ rowids' = Inserted(rowids, p)
    /\ milestones' = Upsert(milestones, p, MilestoneRow(old, Chan(g)))
    /\ UNCHANGED <<intervals, upcoming_alerts, liveChans, msSent, owed, lastOk>>
    /\ Spend
    /\ ProcsUnchanged

\* /removemilestones
RemoveMilestones(g, v) ==
    LET p == <<g, v>> IN
    /\ CanSpend
    /\ milestones' = IF p \in DOMAIN milestones
                     THEN Upsert(milestones, p, [milestones[p] EXCEPT !.ping = NoChannel])
                     ELSE milestones
    /\ UNCHANGED <<videos, rowids, intervals, upcoming_alerts, liveChans, msSent, owed, lastOk>>
    /\ Spend
    /\ ProcsUnchanged

\* the row /setinterval writes: INSERT OR REPLACE names video_id, guild_id and hours only
IntervalRow(old, h) == [IntervalDefaults EXCEPT !.hours = h]

\* /setinterval (hours >= 1/60 is one minute or more)
SetInterval(g, v, h) ==
    LET p == <<g, v>>
        old == IF p \in DOMAIN intervals THEN intervals[p] ELSE IntervalDefaults IN
    /\ CanSpend
    /\ h >= 1
    /\ videos' = EnsureVideo(videos, p)
    /\ rowids' = Inserted(rowids, p)
    /\ intervals' = Upsert(intervals, p, IntervalRow(old, h))
    /\ UNCHANGED <<milestones, upcoming_alerts, liveChans, msSent, owed, lastOk>>
    /\ Spend
    /\ ProcsUnchanged

\* /disableinterval
DisableInterval(g, v) ==
    LET p == <<g, v>> IN
    /\ CanSpend
    /\ intervals' = IF p \in DOMAIN intervals
                    THEN Upsert(intervals, p, [intervals[p] EXCEPT !.hours = 0])
                    ELSE intervals
    /\ owed' = ForgetOwed(p)
    /\ UNCHANGED <<videos, rowids, milestones, upcoming_alerts, liveChans, msSent, lastOk>>
    /\ Spend
    /\ ProcsUnchanged

\* /setupcomingmilestonesalert
SetUpcomingAlert(g) ==
    /\ CanSpend
    /\ Chan(g) \in liveChans
    /\ upcoming_alerts' = Upsert(upcoming_alerts, g, [channel_id |-> Chan(g)])
    /\ UNCHANGED <<videos, rowids, intervals, milestones, liveChans, msSent, owed, lastOk>>
    /\ Spend
    /\ ProcsUnchanged

\* a text channel is deleted on the chat platform: get_channel returns None for it
DeleteChannel(g) ==
    /\ CanSpend
    /\ Chan(g) \in liveChans
    /\ liveChans' = liveChans \ {Chan(g)}
    /\ owed' = {x \in owed : x[1][1] # g}
    /\ UNCHANGED <<videos, rowids, intervals, milestones, upcoming_alerts, msSent, lastOk>>
    /\ Spend
    /\ ProcsUnchanged

\* ------------------------------------------------------------ kst_tracker
\* if now.minute != 0 or now.hour not in [0, 12, 17]: return
KstFiringMut(now) == (now \div MinutesPerHour) % HoursPerDay \in {0, 12, 17}
KstFiring(now) ==
    /\ now % MinutesPerHour = 0
    /\ (now \div MinutesPerHour) % HoursPerDay \in {0, 12, 17}

\* the tier the milestone message names: "hit {current_million}M VIEWS"
NotifiedTierMut(views) == Tier(views) - 1
NotifiedTier(views) == Tier(views)

SetLastMillion(ms, p, t) == IF p \in DOMAIN ms THEN [ms EXCEPT ![p].last_million = t] ELSE ms
SentOne(p, t) ==
    LET k == <<p, t>> IN
    Upsert(msSent, k, IF k \in DOMAIN msSent THEN msSent[k] + 1 ELSE 1)

\* rows of "SELECT * FROM videos WHERE guild_id=?"
VideoRows(vids, ids, g) ==
    [i \in 1..Len(ids[g]) |-> [pair |-> ids[g][i], alert_channel |-> vids[ids[g][i]].alert_channel]]

\* the coroutine enters the body of "for guild in bot.guilds" at guild number gi
\* and runs to its first fetch; a guild without videos sends no digest
RECURSIVE KstEnter(_, _, _)
KstEnter(gi, vids, ids) ==
    IF gi > Len(Guilds) THEN Idle
    ELSE LET rows == VideoRows(vids, ids, Guilds[gi]) IN
         IF rows = <<>> THEN KstEnter(gi + 1, vids, ids)
         ELSE [pc |-> "fetch", gi |-> gi, queue |-> rows, views |-> 0, up |-> <<>>]

\* the loop body for one video is over: next video, or the guild's digest, or the next guild
KstNext(k, vids, ids, ups, live) ==
    IF Len(k.queue) > 1
    THEN [k EXCEPT !.pc = "fetch", !.queue = Tail(k.queue), !.views = 0]
    ELSE LET g == Guilds[k.gi] IN
         IF k.up # <<>> /\ g \in DOMAIN ups /\ ups[g].channel_id \in live
         THEN [k EXCEPT !.pc = "send_digest", !.queue = <<>>, !.views = 0]
         ELSE KstEnter(k.gi + 1, vids, ids)

\* 0 < diff <= 100_000 with diff = next million - views
QualifiesMut(views) ==
    LET next_m == (Tier(views) + 1) * Million
        diff == next_m - views IN
    0 < diff /\ diff < UpcomingWindow
Qualifies(views) ==
    LET next_m == (Tier(views) + 1) * Million
        diff == next_m - views IN
    0 < diff /\ diff <= UpcomingWindow

\* INSERT OR REPLACE INTO intervals (video_id, guild_id, kst_last_views, kst_last_run)
KstIntervalRow(old, views) == [IntervalDefaults EXCEPT !.kst_last_views = views]

\* if current_million > last_million and ping_str
KstCrossing(ms, p, views) ==
    /\ p \in DOMAIN ms
    /\ Tier(views) > ms[p].last_million
    /\ ms[p].ping # NoChannel

\* the "UPCOMING" part of the loop body, then on to the next await
KstFinish(k, p, views) ==
    LET k2 == [k EXCEPT !.up = IF Qualifies(views) THEN Append(k.up, p) ELSE k.up] IN
    kst' = KstNext(k2, videos, rowids, upcoming_alerts, liveChans)

\* from "UPDATE KST HISTORY" to the milestone send or the end of the loop body
KstAfterStats(k, p, views) ==
    LET old == IF p \in DOMAIN intervals THEN intervals[p] ELSE IntervalDefaults IN
    /\ intervals' = Upsert(intervals, p, KstIntervalRow(old, views))
    /\ IF KstCrossing(milestones, p, views)
       THEN IF milestones[p].ping \in liveChans
            THEN /\ kst' = [k EXCEPT !.pc = "send_ms", !.views = views]
                 /\ milestones' = milestones
            ELSE /\ milestones' = SetLastMillion(milestones, p, Tier(views))
                 /\ KstFinish(k, p, views)
       ELSE /\ milestones' = milestones
            /\ KstFinish(k, p, views)

KstFrame == UNCHANGED <<videos, rowids, upcoming_alerts, backup, liveChans, clock, ivRan, iv, cmd,
                        ncmd, boots, owed, lastOk, ret>>

\* one iteration of the loop starts: a no-op unless the minute is a checkpoint
KstStart ==
    /\ kst.pc = "idle"
    /\ ~kstRan
    /\ kstRan' = TRUE
    /\ IF KstFiring(clock)
       THEN kst' = KstEnter(1, videos, rowids)
       ELSE kst' = Idle
    /\ UNCHANGED <<intervals, milestones, msSent>>
    /\ KstFrame

\* fetch_video_stats returns r
KstFetch(r) ==
    /\ kst.pc = "fetch"
    /\ LET cur == Head(kst.queue) IN
       IF r = Unavailable
       THEN /\ kst' = KstNext(kst, videos, rowids, upcoming_alerts, liveChans)
            /\ UNCHANGED <<intervals, milestones>>
       ELSE IF cur.alert_channel = NoChannel
       THEN /\ kst' = TickAborted     \* int('') raises: the outer except ends the tick
            /\ UNCHANGED <<intervals, milestones>>
       ELSE IF cur.alert_channel \in liveChans
       THEN /\ kst' = [kst EXCEPT !.pc = "send_stats", !.views = r]
            /\ UNCHANGED <<intervals, milestones>>
       ELSE KstAfterStats(kst, cur.pair, r)
    /\ UNCHANGED <<kstRan, msSent>>
    /\ KstFrame

\* the stats message was sent (ok) or channel.send raised
KstSendStats(ok) ==
    /\ kst.pc = "send_stats"
    /\ IF ok
       THEN KstAfterStats(kst, Head(kst.queue).pair, kst.views)
       ELSE /\ kst' = TickAborted
            /\ UNCHANGED <<intervals, milestones>>
    /\ UNCHANGED <<kstRan, msSent>>
    /\ KstFrame

\* the milestone message was sent (ok) or ping_channel.send raised inside try/except
KstSendMs(ok) ==
    /\ kst.pc = "send_ms"
    /\ LET p == Head(kst.queue).pair IN
       /\ msSent' = IF ok THEN SentOne(p, NotifiedTier(kst.views)) ELSE msSent
       /\ milestones' = SetLastMillion(milestones, p, Tier(kst.views))
       /\ KstFinish(kst, p, kst.views)
    /\ UNCHANGED <<kstRan, intervals>>
    /\ KstFrame

\* the guild's digest was sent (ok) or channel.send raised
KstSendDigest(ok) ==
    /\ kst.pc = "send_digest"
    /\ IF ok
       THEN kst' = KstEnter(kst.gi + 1, videos, rowids)
       ELSE kst' = TickAborted
    /\ UNCHANGED <<kstRan, intervals, milestones, msSent>>
    /\ KstFrame

\* ------------------------------------------------------------ the clock
\* both loops have run for this minute and returned: the next minute begins
Tick ==
    /\ kst.pc = "idle" /\ iv.pc = "idle" /\ cmd.pc = "idle"
    /\ kstRan /\ ivRan
    /\ clock < StartMinute + MaxTime
    /\ clock' = clock + 1
    /\ kstRan' = FALSE
    /\ ivRan' = FALSE
    /\ UNCHANGED <<videos, rowids, intervals, milestones, upcoming_alerts, backup, liveChans,
                   kst, iv, cmd, ncmd, boots, msSent, owed, lastOk, ret>>

\* ------------------------------------------------------- interval_checker
\* WHERE i.hours > 0 AND (i.last_interval_run IS NULL OR
\*        datetime(i.last_interval_run, '+hours') < datetime(now))
IsDue(row, now) ==
    /\ row.hours > 0
    /\ \/ row.last_interval_run = NULL
       \/ row.last_interval_run + row.hours < now

\* rows of "SELECT i.*, v.title, v.alert_channel FROM intervals i JOIN videos v ..."
JoinRow(ivs, vids, p) ==
    [pair |-> p, hours |-> ivs[p].hours, alert_channel |-> vids[p].alert_channel]
DueRows(g, ivs, vids, ids, now) ==
    LET due == SelectSeq(ids[g], LAMBDA p : p \in DOMAIN ivs /\ IsDue(ivs[p], now)) IN
    [i \in 1..Len(due) |-> JoinRow(ivs, vids, due[i])]

\* the coroutine runs "for row in intervals" from the head of q to its next fetch:
\* int('') of a stub's channel raises and ends the tick, a missing channel skips the row
RECURSIVE IvSeek(_, _, _, _, _, _, _), IvEnter(_, _, _, _, _, _)
IvSeek(q, gi, ivs, vids, ids, live, now) ==
    IF q = <<>> THEN IvEnter(gi + 1, ivs, vids, ids, live, now)
    ELSE IF Head(q).alert_channel = NoChannel THEN TickAborted
    ELSE IF Head(q).alert_channel \notin live THEN IvSeek(Tail(q), gi, ivs, vids, ids, live, now)
    ELSE [pc |-> "fetch", gi |-> gi, queue |-> q, views |-> 0]
IvEnter(gi, ivs, vids, ids, live, now) ==
    IF gi > Len(Guilds) THEN Idle
    ELSE IvSeek(DueRows(Guilds[gi], ivs, vids, ids, now), gi, ivs, vids, ids, live, now)

\* if current_million > (last_million or 0)
IvCrossing(ms, p, views) ==
    /\ p \in DOMAIN ms
    /\ Tier(views) > ms[p].last_million

\* UPDATE intervals SET last_interval_views=?, last_interval_run=? WHERE ...
IntervalCycleRow(old, views, now) ==
    [old EXCEPT !.last_interval_views = views, !.last_interval_run = now]
RecordCycle(ivs, p, views, now) ==
    IF p \in DOMAIN ivs THEN [ivs EXCEPT ![p] = IntervalCycleRow(ivs[p], views, now)] ELSE ivs

IvFrame == UNCHANGED <<videos, rowids, upcoming_alerts, backup, liveChans, clock, kstRan, kst, cmd,
                       ncmd, boots, ret>>

\* one iteration of the loop starts
IvStart ==
    /\ iv.pc = "idle"
    /\ ~ivRan
    /\ ivRan' = TRUE
    /\ iv' = IvEnter(1, intervals, videos, rowids, liveChans, clock)
    /\ UNCHANGED <<intervals, milestones, msSent, owed, lastOk>>
    /\ IvFrame

\* what an unavailable fetch leaves of the store: "if views is None: continue"
IvSkipMut(ivs, p, now) == RecordCycle(ivs, p, 0, now)
IvSkip(ivs, p, now) == ivs

\* what the cycle writes to intervals between an available fetch and the interval
\* send (milestone check, net, next_time): nothing
IvBeforeSendMut(ivs, p, views, now) == RecordCycle(ivs, p, views, now)
IvBeforeSend(ivs, p, views, now) == ivs

\* fetch_video_stats returns r
IvFetch(r) ==
    /\ iv.pc = "fetch"
    /\ LET cur == Head(iv.queue)
           p == cur.pair IN
       /\ owed' = {x \in owed : x[1] # p} \cup
                  (IF r = Unavailable /\ p \in DOMAIN videos /\ p \in DOMAIN intervals
                      /\ intervals[p].hours > 0 /\ cur.alert_channel \in liveChans
                   THEN {<<p, clock>>} ELSE {})
       /\ IF r = Unavailable
          THEN /\ intervals' = IvSkip(intervals, p, clock)
               /\ iv' = IvSeek(Tail(iv.queue), iv.gi, intervals, videos, rowids, liveChans, clock)
               /\ UNCHANGED milestones
          ELSE /\ intervals' = IvBeforeSend(intervals, p, r, clock)
               /\ IF IvCrossing(milestones, p, r) /\ milestones[p].ping # NoChannel
                  THEN IF milestones[p].ping \in liveChans
                       THEN /\ iv' = [iv EXCEPT !.pc = "send_ms", !.views = r]
                            /\ UNCHANGED milestones
                       ELSE /\ iv' = [iv EXCEPT !.pc = "send", !.views = r]
                            /\ milestones' = SetLastMillion(milestones, p, Tier(r))
                  ELSE /\ iv' = [iv EXCEPT !.pc = "send", !.views = r]
                       /\ UNCHANGED milestones
    /\ UNCHANGED <<ivRan, msSent, lastOk>>
    /\ IvFrame

\* the milestone message was sent (ok) or ping_ch.send raised inside try/except
IvSendMs(ok) ==
    /\ iv.pc = "send_ms"
    /\ LET p == Head(iv.queue).pair IN
       /\ msSent' = IF ok THEN SentOne(p, NotifiedTier(iv.views)) ELSE msSent
       /\ milestones' = SetLastMillion(milestones, p, Tier(iv.views))
       /\ iv' = [iv EXCEPT !.pc = "send"]
    /\ UNCHANGED <<ivRan, intervals, owed, lastOk>>
    /\ IvFrame

\* the interval message was sent (ok) or channel.send raised: the outer except ends the tick
IvSend(ok) ==
    /\ iv.pc = "send"
    /\ LET cur == Head(iv.queue)
           p == cur.pair
           ivs2 == RecordCycle(intervals, p, iv.views, clock) IN
       IF ok
       THEN /\ intervals' = ivs2
            /\ lastOk' = IF p \in DOMAIN intervals
                         THEN ForgetOk(p) \cup {<<p, clock>>}
                         ELSE lastOk
            /\ iv' = IvSeek(Tail(iv.queue), iv.gi, ivs2, videos, rowids, liveChans, clock)
       ELSE /\ iv' = TickAborted
            /\ UNCHANGED <<intervals, lastOk>>
    /\ UNCHANGED <<ivRan, milestones, msSent, owed>>
    /\ IvFrame

\* ------------------------------------- commands that fetch: one in flight
\* rows of /forcecheck: "SELECT title, video_id FROM videos WHERE channel_id=?"
\* (channel_id and alert_channel are written with the same value)
ChannelRows(vids, ids, g) ==
    SelectSeq(VideoRows(vids, ids, g), LAMBDA r : r.alert_channel = Chan(g))

\* rows of /checkintervals: active intervals of the guild joined with videos
ActiveRows(g, ivs, vids, ids) ==
    LET act == SelectSeq(ids[g], LAMBDA p : p \in DOMAIN ivs /\ ivs[p].hours > 0) IN
    [i \in 1..Len(act) |-> JoinRow(ivs, vids, act[i])]

\* /checkintervals runs "for row in intervals" to its next fetch: int('') raises
\* out of the command, a missing channel skips the row
RECURSIVE CiSeek(_, _, _)
CiSeek(q, g, live) ==
    IF q = <<>> THEN Idle
    ELSE IF Head(q).alert_channel = NoChannel THEN Idle
    ELSE IF Head(q).alert_channel \notin live THEN CiSeek(Tail(q), g, live)
    ELSE [pc |-> "fetch", kind |-> "checkintervals", g |-> g, queue |-> q, views |-> 0]

\* /forcecheck and /viewsall: "for video in videos" to its next fetch
FcSeek(q, kind, g) ==
    IF q = <<>> THEN Idle
    ELSE [pc |-> "fetch", kind |-> kind, g |-> g, queue |-> q, views |-> 0]

\* INSERT OR REPLACE INTO intervals (video_id, guild_id, last_views, kst_last_views, last_interval_views)
ForceCheckRow(old, views) ==
    [IntervalDefaults EXCEPT !.kst_last_views = views, !.last_interval_views = views]

CmdFrame == UNCHANGED <<videos, rowids, milestones, upcoming_alerts, backup, liveChans, clock,
                        kstRan, ivRan, kst, iv, boots, msSent, owed, lastOk, ret>>

\* /forcecheck, /viewsall or /checkintervals is invoked in guild g
CmdStart(kind, g) ==
    /\ cmd.pc = "idle"
    /\ CanSpend
    /\ Chan(g) \in liveChans
    /\ cmd' = CASE kind = "forcecheck" -> FcSeek(ChannelRows(videos, rowids, g), kind, g)
                 [] kind = "viewsall" -> FcSeek(VideoRows(videos, rowids, g), kind, g)
                 [] OTHER -> CiSeek(ActiveRows(g, intervals, videos, rowids), g, liveChans)
    /\ cmd'.pc # "idle"
    /\ ncmd' = ncmd + 1
    /\ UNCHANGED intervals
    /\ CmdFrame

\* fetch_video_stats returns r to the command
CmdFetch(r) ==
    /\ cmd.pc = "fetch"
    /\ LET p == Head(cmd.queue).pair
           old == IF p \in DOMAIN intervals THEN intervals[p] ELSE IntervalDefaults IN
       IF cmd.kind = "checkintervals"
       THEN /\ cmd' = IF r = Unavailable
                      THEN CiSeek(Tail(cmd.queue), cmd.g, liveChans)
                      ELSE [cmd EXCEPT !.pc = "send", !.views = r]
            /\ UNCHANGED intervals
       ELSE /\ cmd' = FcSeek(Tail(cmd.queue), cmd.kind, cmd.g)
            /\ intervals' = IF r = Unavailable THEN intervals
                            ELSE Upsert(intervals, p, ForceCheckRow(old, r))
    /\ UNCHANGED ncmd
    /\ CmdFrame

\* /checkintervals: the interval message was sent (ok) or channel.send raised inside try/except
CmdSend(ok) ==
    /\ cmd.pc = "send"
    /\ intervals' = IF ok THEN RecordCycle(intervals, Head(cmd.queue).pair, cmd.views, clock)
                    ELSE intervals
    /\ cmd' = CiSeek(Tail(cmd.queue), cmd.g, liveChans)
    /\ UNCHANGED ncmd
    /\ CmdFrame

\* ------------------------------------------------------- specification
Fetched == ViewSamples \cup {Unavailable}

Command ==
    \/ \E p \in Pairs : AddVideo(p[1], p[2])
    \/ \E p \in Pairs : RemoveVideo(p[1], p[2])
    \/ \E p \in Pairs : SetMilestone(p[1], p[2])
    \/ \E p \in Pairs : RemoveMilestones(p[1], p[2])
    \/ \E p \in Pairs, h \in HoursSamples : SetInterval(p[1], p[2], h)
    \/ \E p \in Pairs : DisableInterval(p[1], p[2])
    \/ \E g \in GuildSet : SetUpcomingAlert(g)
    \/ \E g \in GuildSet : DeleteChannel(g)
    \/ \E g \in GuildSet, k \in {"forcecheck", "viewsall", "checkintervals"} : CmdStart(k, g)
    \/ \E r \in Fetched : CmdFetch(r)
    \/ \E ok \in BOOLEAN : CmdSend(ok)

KstStep ==
    \/ KstStart
    \/ \E r \in Fetched : KstFetch(r)
    \/ \E ok \in BOOLEAN : KstSendStats(ok)
    \/ \E ok \in BOOLEAN : KstSendMs(ok)
    \/ \E ok \in BOOLEAN : KstSendDigest(ok)

IvStep ==
    \/ IvStart
    \/ \E r \in Fetched : IvFetch(r)
    \/ \E ok \in BOOLEAN : IvSendMs(ok)
    \/ \E ok \in BOOLEAN : IvSend(ok)

Next == Command \/ KstStep \/ IvStep \/ Tick

Spec == Init /\ [][Next]_vars

\* --------------------------------------------- backup.db and the restart
\* The process stops and starts again within the minute.  A clean stop runs the
\* atexit hook (backup_db) first; a kill does not.  Module start then runs
\* restore_db, which copies backup.db over the database file when it exists,
\* and init_db, which creates only the tables that are missing.  on_ready starts
\* the loops, and each runs its first iteration at once: hourly_backup copies the
\* database file to backup.db right away, and not again within the hour.
Restart(clean) ==
    /\ boots < MaxBoots
    /\ boots' = boots + 1
    /\ LET restored == IF clean THEN db ELSE backup IN
       /\ videos' = restored[1]
       /\ rowids' = restored[2]
       /\ intervals' = restored[3]
       /\ milestones' = restored[4]
       /\ upcoming_alerts' = restored[5]
       /\ backup' = restored
    /\ kst' = Idle
    /\ iv' = Idle
    /\ cmd' = Idle
    /\ kstRan' = FALSE
    /\ ivRan' = FALSE
    /\ owed' = {}
    /\ lastOk' = {}
    /\ UNCHANGED <<liveChans, clock, ncmd, msSent, ret>>

NextCrash == Next \/ \E clean \in BOOLEAN : Restart(clean)

SpecCrash == Init /\ [][NextCrash]_vars

\* The process starts on a database file that already holds one registered
\* video (kept from an earlier run, or copied back by restore_db); the first
\* hourly_backup iteration copies it to backup.db.
TrackedAtStart == <<"g1", "v1">>
InitTracked ==
    /\ videos = Upsert(EmptyTable, TrackedAtStart, [alert_channel |-> Chan(TrackedAtStart[1])])
    /\ rowids = Inserted([g \in GuildSet |-> <<>>], TrackedAtStart)
    /\ intervals = EmptyTable
    /\ milestones = EmptyTable
    /\ upcoming_alerts = EmptyTable
    /\ backup = <<videos, rowids, EmptyTable, EmptyTable, EmptyTable>>
    /\ liveChans = {Chan(g) : g \in GuildSet}
    /\ clock = StartMinute
    /\ kstRan = FALSE
    /\ ivRan = FALSE
    /\ kst = Idle
    /\ iv = Idle
    /\ cmd = Idle
    /\ ncmd = 0
    /\ boots = 0
    /\ msSent = EmptyTable
    /\ owed = {}
    /\ lastOk = {}
    /\ ret = NoRet

SpecTracked == InitTracked /\ [][Next]_vars

\* ---------------------------------------------------- the upcoming report
\* The part of kst_tracker's pass over one guild that builds guild_upcoming and
\* the digest message, and the /upcoming command, as functions of the views
\* fetched for the guild's videos in row order.
ReportViews == {899999, 900000, 950000, 999999, 1000000, 2300000, Unavailable}
ReportInputs ==
    {[i \in 1..n |-> IF i = k THEN a ELSE b] :
        n \in 1..MaxRows, k \in 1..MaxRows, a \in ReportViews, b \in ReportViews}

\* the entries appended for the videos that pass "views is not None" and
\* "0 < diff <= 100_000", in row order
ReportEntry(views, i) ==
    [row |-> i, diff |-> (Tier(views[i]) + 1) * Million - views[i]]
UpcomingOf(views) ==
    LET all == [i \in 1..Len(views) |-> i]
        idx == SelectSeq(all, LAMBDA i : views[i] # Unavailable /\ Qualifies(views[i])) IN
    [j \in 1..Len(idx) |-> ReportEntry(views, idx[j])]

\* chr(10).join(guild_upcoming[:10])
DigestLinesMut(up) == up
DigestLines(up) == SubSeq(up, 1, IF Len(up) < DigestCap THEN Len(up) ELSE DigestCap)

\* for i in range(0, len(lines), page_size): lines[i:i+page_size]
Pages(lines) ==
    [j \in 1..((Len(lines) + PageSize - 1) \div PageSize) |->
        SubSeq(lines, (j - 1) * PageSize + 1,
               IF j * PageSize < Len(lines) THEN j * PageSize ELSE Len(lines))]

StoreAndProcs == <<videos, rowids, intervals, milestones, upcoming_alerts, backup, liveChans,
                   clock, kstRan, ivRan, kst, iv, cmd, ncmd, boots, msSent, owed, lastOk>>

\* one guild's pass of a firing with these fetched views: the digest lines
KstDigest(views) ==
    /\ ret = NoRet
    /\ ret' = [op |-> "digest", views |-> views, lines |-> DigestLines(UpcomingOf(views))]
    /\ UNCHANGED StoreAndProcs

\* /upcoming with these fetched views: the pages
UpcomingCommand(views) ==
    /\ ret = NoRet
    /\ ret' = [op |-> "upcoming", views |-> views, pages |-> Pages(UpcomingOf(views))]
    /\ UNCHANGED StoreAndProcs

NextReport ==
    \/ \E views \in ReportInputs : KstDigest(views)
    \/ \E views \in ReportInputs : UpcomingCommand(views)

SpecReport == Init /\ [][NextReport]_vars

\* ----------------------------------------------------- the command boundary
\* The slash commands from the text the user typed to the reply: the parse of
\* url_or_id, the validation, every db_execute with its result, the reply.
\* A string is a sequence of pieces: one of the three URL prefixes the first
\* pattern knows, an 11-character id (the names in Videos stand for such ids),
\* one more character of the id class, one character outside it, one blank,
\* or a run of 501 characters.
UrlPrefixes == {"youtube.com/watch?v=", "youtu.be/", "youtube.com/embed/"}
IdChar == "c"
OtherChar == "/"
Blank == " "
LongText == "long"
CharLen(piece) ==
    CASE piece = "youtube.com/watch?v=" -> 20
      [] piece = "youtu.be/" -> 9
      [] piece = "youtube.com/embed/" -> 18
      [] piece \in Videos -> IdLen
      [] piece = LongText -> MaxInputLen + 1
      [] OTHER -> 1
RECURSIVE Length(_)
Length(u) == IF u = <<>> THEN 0 ELSE CharLen(Head(u)) + Length(Tail(u))

\* url_or_id.strip()
RECURSIVE LStrip(_), RStrip(_)
LStrip(u) == IF u # <<>> /\ Head(u) = Blank THEN LStrip(Tail(u)) ELSE u
RStrip(u) == IF u # <<>> /\ u[Len(u)] = Blank THEN RStrip(SubSeq(u, 1, Len(u) - 1)) ELSE u
Strip(u) == RStrip(LStrip(u))

BoundaryInputs ==
    { <<>>,
      <<Blank>>,
      <<LongText>>,
      <<OtherChar, OtherChar>>,
      <<IdChar>>,
      <<"v1">>,
      <<Blank, "v1", Blank>>,
      <<"v1", IdChar>>,
      <<"youtube.com/watch?v=", "v1">>,
      <<OtherChar, "youtu.be/", "v1", OtherChar>>,
      <<"youtube.com/embed/", "v1">>,
      <<"youtu.be/", IdChar>>,
      <<"youtu.be/", "v1", IdChar>> }
BoundaryHours == {-1, 0, 1}                   \* /setinterval periods, in minutes

\* extract_video_id: what it returns, or that it raised
Returned(id) == [raised |-> FALSE, id |-> id]
Raised == [raised |-> TRUE, id |-> ""]
ExtractVideoId(u) ==
    IF u = <<>> \/ Length(u) > MaxInputLen THEN Returned("")
    ELSE LET t == Strip(u)
             \* re.search of the first pattern: a prefix followed by 11 id characters
             hits == {i \in 1..(Len(t) - 1) : t[i] \in UrlPrefixes /\ t[i + 1] \in Videos}
             first == CHOOSE i \in hits : \A j \in hits : i <= j IN
         IF hits # {} THEN Returned(t[first + 1])
         \* the second pattern, ^[a-zA-Z0-9_-]{11}$, has no group: match.group(1) raises IndexError
         ELSE IF Len(t) = 1 /\ t[1] \in Videos THEN Raised
         ELSE Returned("")

\* if hours < 1/60
TooShortMut(h) == h < 0
TooShort(h) == h < 1

\* what db_execute returns: True, False, or a list of n rows
DbTrue == [type |-> "bool", value |-> 1]
DbFalse == [type |-> "bool", value |-> 0]
DbRows(n) == [type |-> "list", value |-> n]
Truthy(r) == r.value > 0

\* except Exception: return False if not fetch else []
DbErrorMut(fetch) == IF fetch THEN DbRows(0) ELSE DbTrue
DbError(fetch) == IF fetch THEN DbRows(0) ELSE DbFalse

\* db_execute of a statement that finds n rows, when sqlite raises at step "at":
\* "execute" (or connect), "close", or nowhere.  A write reaches commit, and so
\* takes effect, unless execute raised.
DbExecute(fetch, n, at) ==
    IF fetch
    THEN [fetch |-> TRUE, at |-> at, applied |-> FALSE,
          ret |-> IF at = "none" THEN DbRows(n) ELSE DbError(TRUE)]
    ELSE [fetch |-> FALSE, at |-> at, applied |-> at # "execute",
          ret |-> IF at = "none" THEN DbTrue ELSE DbError(FALSE)]

\* the store fails at most once in a call: in its k-th db_execute, at that step
Stmts == 1..4
Faults == {<<0, "none">>} \cup (Stmts \X {"execute", "close"})
At(f, k) == IF f[1] = k THEN f[2] ELSE "none"
\* INSERT INTO videos of a key that is there violates the primary key
InsertAt(f, k, vids, p) == IF p \in DOMAIN vids THEN "execute" ELSE At(f, k)
Stmt(k, r) == [stmt |-> k, fetch |-> r.fetch, at |-> r.at, applied |-> r.applied, ret |-> r.ret]
Found(tbl, p) == IF p \in DOMAIN tbl THEN 1 ELSE 0

CanCall == ncmd < MaxCalls
BoundaryFrame == /\ ncmd' = ncmd + 1
                 /\ UNCHANGED <<backup, liveChans, clock, kstRan, ivRan, kst, iv, cmd, boots,
                                msSent, owed, lastOk>>
\* what the call was given, what it replied, and its db_execute calls in order
Reply(op, u, h, reply, trace) ==
    [op |-> op, arg |-> u, hours |-> h, reply |-> reply, db |-> trace]
\* "Invalid URL/ID", or no reply at all when extract_video_id raised
Rejection(x) == IF x.raised THEN "raised" ELSE "invalid"

\* ensure_video_exists as the first two statements of a call
EnsureVideoCall(vids, ids, p, f) ==
    LET r1 == DbExecute(TRUE, Found(vids, p), At(f, 1))
        r2 == DbExecute(FALSE, 0, InsertAt(f, 2, vids, p)) IN
    IF Truthy(r1.ret)
    THEN [videos |-> vids, rowids |-> ids, db |-> <<Stmt(1, r1)>>]
    ELSE [videos |-> IF r2.applied THEN EnsureVideo(vids, p) ELSE vids,
          rowids |-> IF r2.applied THEN Inserted(ids, p) ELSE ids,
          db |-> <<Stmt(1, r1), Stmt(2, r2)>>]

\* /addvideo
AddVideoCall(g, u, f) ==
    LET x == ExtractVideoId(u)
        p == <<g, x.id>>
        r1 == DbExecute(TRUE, Found(videos, p), At(f, 1))
        r2 == DbExecute(FALSE, 0, InsertAt(f, 2, videos, p)) IN
    /\ CanCall
    /\ IF x.raised \/ x.id = ""
       THEN /\ ret' = Reply("addvideo", u, 0, Rejection(x), <<>>)
            /\ UNCHANGED <<videos, rowids>>
       ELSE IF Truthy(r1.ret)
       THEN /\ ret' = Reply("addvideo", u, 0, "exists", <<Stmt(1, r1)>>)
            /\ UNCHANGED <<videos, rowids>>
       ELSE /\ ret' = Reply("addvideo", u, 0, IF Truthy(r2.ret) THEN "ok" ELSE "db_error",
                            <<Stmt(1, r1), Stmt(2, r2)>>)
            /\ videos' = IF r2.applied THEN Upsert(videos, p, [alert_channel |-> Chan(g)])
                         ELSE videos
            /\ rowids' = IF r2.applied THEN Inserted(rowids, p) ELSE rowids
    /\ UNCHANGED <<intervals, milestones, upcoming_alerts>>
    /\ BoundaryFrame

\* /removevideo
RemoveVideoCall(g, u, f) ==
    LET x == ExtractVideoId(u)
        p == <<g, x.id>>
        r1 == DbExecute(TRUE, Found(videos, p), At(f, 1))
        r2 == DbExecute(FALSE, 0, At(f, 2))
        r3 == DbExecute(FALSE, 0, At(f, 3))
        r4 == DbExecute(FALSE, 0, At(f, 4)) IN
    /\ CanCall
    /\ IF x.raised \/ x.id = ""
       THEN /\ ret' = Reply("removevideo", u, 0, Rejection(x), <<>>)
            /\ UNCHANGED <<videos, rowids, intervals, milestones>>
       ELSE /\ ret' = Reply("removevideo", u, 0, "ok",
                            <<Stmt(1, r1), Stmt(2, r2), Stmt(3, r3), Stmt(4, r4)>>)
            /\ videos' = IF r2.applied THEN Delete(videos, p) ELSE videos
            /\ rowids' = IF r2.applied THEN Deleted(rowids, p) ELSE rowids
            /\ intervals' = IF r3.applied THEN DeleteIntervals(intervals, p) ELSE intervals
            /\ milestones' = IF r4.applied THEN DeleteMilestones(milestones, p) ELSE milestones
    /\ UNCHANGED upcoming_alerts
    /\ BoundaryFrame

\* /setmilestone
SetMilestoneCall(g, u, f) ==
    LET x == ExtractVideoId(u)
        p == <<g, x.id>>
        e == EnsureVideoCall(videos, rowids, p, f)
        r3 == DbExecute(FALSE, 0, At(f, 3))
        old == IF p \in DOMAIN milestones THEN milestones[p] ELSE MilestoneDefaults IN
    /\ CanCall
    /\ IF x.raised \/ x.id = ""
       THEN /\ ret' = Reply("setmilestone", u, 0, Rejection(x), <<>>)
            /\ UNCHANGED <<videos, rowids, milestones>>
       ELSE /\ ret' = Reply("setmilestone", u, 0, "ok", Append(e.db, Stmt(3, r3)))
            /\ videos' = e.videos
            /\ rowids' = e.rowids
            /\ milestones' = IF r3.applied
                             THEN Upsert(milestones, p, MilestoneRow(old, Chan(g)))
                             ELSE milestones
    /\ UNCHANGED <<intervals, upcoming_alerts>>
    /\ BoundaryFrame

\* /removemilestones
RemoveMilestonesCall(g, u, f) ==
    LET x == ExtractVideoId(u)
        p == <<g, x.id>>
        r1 == DbExecute(FALSE, 0, At(f, 1)) IN
    /\ CanCall
    /\ IF x.raised \/ x.id = ""
       THEN /\ ret' = Reply("removemilestones", u, 0, Rejection(x), <<>>)
            /\ UNCHANGED milestones
       ELSE /\ ret' = Reply("removemilestones", u, 0, "ok", <<Stmt(1, r1)>>)
            /\ milestones' = IF r1.applied /\ p \in DOMAIN milestones
                             THEN [milestones EXCEPT ![p].ping = NoChannel]
                             ELSE milestones
    /\ UNCHANGED <<videos, rowids, intervals, upcoming_alerts>>
    /\ BoundaryFrame

\* /setinterval
SetIntervalCall(g, u, h, f) ==
    LET x == ExtractVideoId(u)
        p == <<g, x.id>>
        e == EnsureVideoCall(videos, rowids, p, f)
        r3 == DbExecute(FALSE, 0, At(f, 3))
        old == IF p \in DOMAIN intervals THEN intervals[p] ELSE IntervalDefaults
        ivs == IF r3.applied THEN Upsert(intervals, p, IntervalRow(old, h)) ELSE intervals
        count == Cardinality({k \in DOMAIN ivs : k[1] = g /\ ivs[k].hours > 0})
        r4 == DbExecute(TRUE, count, At(f, 4)) IN
    /\ CanCall
    /\ IF TooShort(h)
       THEN /\ ret' = Reply("setinterval", u, h, "min", <<>>)
            /\ UNCHANGED <<videos, rowids, intervals>>
       ELSE IF x.raised \/ x.id = ""
       THEN /\ ret' = Reply("setinterval", u, h, Rejection(x), <<>>)
            /\ UNCHANGED <<videos, rowids, intervals>>
       ELSE /\ ret' = Reply("setinterval", u, h, "ok",
                            e.db \o <<Stmt(3, r3), Stmt(4, r4)>>)
            /\ videos' = e.videos
            /\ rowids' = e.rowids
            /\ intervals' = ivs
    /\ UNCHANGED <<milestones, upcoming_alerts>>
    /\ BoundaryFrame

\* /disableinterval
DisableIntervalCall(g, u, f) ==
    LET x == ExtractVideoId(u)
        p == <<g, x.id>>
        r1 == DbExecute(FALSE, 0, At(f, 1)) IN
    /\ CanCall
    /\ IF x.raised \/ x.id = ""
       THEN /\ ret' = Reply("disableinterval", u, 0, Rejection(x), <<>>)
            /\ UNCHANGED intervals
       ELSE /\ ret' = Reply("disableinterval", u, 0, "ok", <<Stmt(1, r1)>>)
            /\ intervals' = IF r1.applied /\ p \in DOMAIN intervals
                            THEN [intervals EXCEPT ![p].hours = 0]
                            ELSE intervals
    /\ UNCHANGED <<videos, rowids, milestones, upcoming_alerts>>
    /\ BoundaryFrame

\* /setupcomingmilestonesalert: the channel is picked, not typed
SetUpcomingAlertCall(g, f) ==
    LET r1 == DbExecute(FALSE, 0, At(f, 1)) IN
    /\ CanCall
    /\ ret' = Reply("setupcomingmilestonesalert", <<>>, 0, "ok", <<Stmt(1, r1)>>)
    /\ upcoming_alerts' = IF r1.applied
                          THEN Upsert(upcoming_alerts, g, [channel_id |-> Chan(g)])
                          ELSE upcoming_alerts
    /\ UNCHANGED <<videos, rowids, intervals, milestones>>
    /\ BoundaryFrame

BoundaryGuilds == {"g1"}                      \* the guild the calls are invoked in

NextBoundary ==
    \/ \E g \in BoundaryGuilds, u \in BoundaryInputs, f \in Faults : AddVideoCall(g, u, f)
    \/ \E g \in BoundaryGuilds, u \in BoundaryInputs, f \in Faults : RemoveVideoCall(g, u, f)
    \/ \E g \in BoundaryGuilds, u \in BoundaryInputs, f \in Faults : SetMilestoneCall(g, u, f)
    \/ \E g \in BoundaryGuilds, u \in BoundaryInputs, f \in Faults : RemoveMilestonesCall(g, u, f)
    \/ \E g \in BoundaryGuilds, u \in BoundaryInputs, f \in Faults, h \in BoundaryHours :
          SetIntervalCall(g, u, h, f)
    \/ \E g \in BoundaryGuilds, u \in BoundaryInputs, f \in Faults : DisableIntervalCall(g, u, f)
    \/ \E g \in BoundaryGuilds, f \in Faults : SetUpcomingAlertCall(g, f)

SpecBoundary == Init /\ [][NextBoundary]_vars

\* ------------------------------------------------------- fair scheduling
\* tasks.loop runs each handler once a minute and the event loop resumes every
\* coroutine whose await has completed: no step of a loop that can be taken is
\* put off forever, and the minutes go by.
\* the loops keep ticking after the last minute the clock counts: the reading stays
TickBeyond ==
    /\ kst.pc = "idle" /\ iv.pc = "idle" /\ cmd.pc = "idle"
    /\ kstRan /\ ivRan
    /\ clock = StartMinute + MaxTime
    /\ kstRan' = FALSE
    /\ ivRan' = FALSE
    /\ UNCHANGED <<videos, rowids, intervals, milestones, upcoming_alerts, backup, liveChans,
                   clock, kst, iv, cmd, ncmd, boots, msSent, owed, lastOk, ret>>

NextFair == Command \/ KstStep \/ IvStep \/ Tick \/ TickBeyond

SpecFair ==
    /\ Init
    /\ [][NextFair]_vars
    /\ WF_vars(KstStep)
    /\ WF_vars(IvStep)
    /\ WF_vars(Tick)
    /\ WF_vars(TickBeyond)

\* =============================================================== claims
Active(p) == p \in DOMAIN intervals /\ intervals[p].hours > 0

\* C1: for a pair that is never removed, a milestone notification naming tier N
\* is sent at most once, whatever the ticks and commands in between.
C1_MilestoneOnce == \A k \in DOMAIN msSent : msSent[k] <= 1

\* C2: the stored last_million of a pair never decreases in a step that keeps
\* the pair's milestones row (every step but /removevideo of the pair).
C2_LastMillionMonotone ==
    [][\A p \in Pairs :
          (p \in DOMAIN milestones /\ p \in DOMAIN milestones')
              => milestones'[p].last_million >= milestones[p].last_million]_vars

\* C3: a stop and restart of the process, clean or not, leaves the four tables
\* as they were: the startup sequence never puts an older copy in their place.
C3_RestartKeepsStore == [][boots' # boots => db' = db]_vars

\* a step of one of the loops or of /forcecheck, /viewsall, /checkintervals
EvaluatorStep == <<kst, kstRan, iv, ivRan, cmd>>' # <<kst, kstRan, iv, ivRan, cmd>>
\* the row after the interval cycle's own update of last_interval_run and last_interval_views
OwnUpdate(old, new) ==
    \E v \in ViewSamples : new = IntervalCycleRow(old, v, clock)

\* C4: a step of kst_tracker, interval_checker, /forcecheck, /viewsall or
\* /checkintervals leaves every active interval active with the same period,
\* and changes its last run and last observed views only by the interval
\* cycle's own update.
C4_ActiveIntervalKept ==
    [][EvaluatorStep =>
          \A p \in Pairs :
              Active(p) =>
                  /\ p \in DOMAIN intervals'
                  /\ intervals'[p].hours = intervals[p].hours
                  /\ \/ intervals'[p] = intervals[p]
                     \/ OwnUpdate(intervals[p], intervals'[p])]_vars

\* the pairs the interval query of a tick at time now selects in guild g
Selected(g, now) ==
    LET rows == DueRows(g, intervals, videos, rowids, now) IN
    {rows[i].pair : i \in 1..Len(rows)}
\* the pairs the specification calls due: last run null, or now >= last run + period
DueBySpec(g, now) ==
    {p \in DOMAIN intervals \cap DOMAIN videos :
        /\ p[1] = g
        /\ intervals[p].hours > 0
        /\ \/ intervals[p].last_interval_run = NULL
           \/ now >= intervals[p].last_interval_run + intervals[p].hours}

\* C5: when a tick of interval_checker is about to run, the pairs its query
\* selects are the active pairs with last run T null or now >= T + P.
C5_DueInclusive ==
    (~ivRan /\ iv.pc = "idle") =>
        \A g \in GuildSet : Selected(g, clock) = DueBySpec(g, clock)

\* C6: a step in which fetch_video_stats returns unavailable (in kst_tracker,
\* interval_checker, /forcecheck, /viewsall or /checkintervals) changes no row
\* of the store and sends no milestone notification.
C6_UnavailableChangesNothing ==
    [][(KstFetch(Unavailable) \/ IvFetch(Unavailable) \/ CmdFetch(Unavailable))
          => (db' = db /\ msSent' = msSent)]_vars

\* a pair whose stored interval state is non-trivial had a fetch come back unavailable
C6_Witness ==
    \E x \in owed :
        /\ x[1] \in DOMAIN intervals
        /\ intervals[x[1]].last_interval_run # NULL
        /\ intervals[x[1]].last_interval_views \in ViewSamples

\* C7: a pair whose interval fetch came back unavailable at minute t, and that
\* no command has removed or disabled since, is fetched again by the tick of
\* minute t + 1: that tick does not end without having fetched it.
C7_RetriedNextTick ==
    \A x \in owed :
        \/ clock = x[2]
        \/ clock = x[2] + 1 /\ ~(ivRan /\ iv.pc = "idle")

\* the interval row of p is written in this step
IntervalWritten(p) ==
    /\ p \in DOMAIN intervals'
    /\ p \in DOMAIN intervals => intervals'[p] # intervals[p]
CiStep == cmd.pc # "idle" /\ cmd.kind = "checkintervals" /\ cmd' # cmd

\* C8: the interval cycle (interval_checker, /checkintervals) writes a pair's
\* interval row only in the step that resumes from that pair's interval send;
\* a send that fails writes nothing.
C8_WriteAfterSend ==
    [][/\ \A p \in Pairs :
            /\ (iv' # iv /\ IntervalWritten(p))
                  => (iv.pc = "send" /\ Head(iv.queue).pair = p)
            /\ (CiStep /\ IntervalWritten(p))
                  => (cmd.pc = "send" /\ Head(cmd.queue).pair = p)
       /\ (IvSend(FALSE) \/ (CiStep /\ CmdSend(FALSE))) => intervals' = intervals]_vars

\* a completed interval cycle has written its minute and views
C8_Witness ==
    \E x \in lastOk :
        /\ x[1] \in DOMAIN intervals
        /\ intervals[x[1]].last_interval_run = x[2]
        /\ intervals[x[1]].last_interval_views \in ViewSamples

\* C9: the step that completes an interval cycle at minute now with views V
\* writes last_interval_run = now and last_interval_views = V together, and no
\* tick before now + P selects the pair, P being the period of the row selected.
C9_CycleThenNotDue ==
    /\ [][IvSend(TRUE) =>
            LET p == Head(iv.queue).pair IN
            p \in DOMAIN intervals =>
                /\ intervals'[p].last_interval_run = clock
                /\ intervals'[p].last_interval_views = iv.views]_vars
    /\ [](iv.pc # "idle" =>
            \A i \in 1..Len(iv.queue) : \A x \in lastOk :
                x[1] = iv.queue[i].pair => clock >= x[2] + iv.queue[i].hours)

\* videos a firing of kst_tracker has still to process after the current one
KstRemaining ==
    IF kst.pc = "idle" THEN {}
    ELSE {kst.queue[i].pair : i \in 2..Len(kst.queue)} \cup
         {p \in DOMAIN videos : \E j \in (kst.gi + 1)..Len(Guilds) : p[1] = Guilds[j]}
\* due pairs with a channel a tick of interval_checker has still to fetch after the current one
IvRemaining ==
    IF iv.pc = "idle" THEN {}
    ELSE {iv.queue[i].pair : i \in {j \in 2..Len(iv.queue) :
                                      iv.queue[j].alert_channel \in liveChans}} \cup
         {p \in DOMAIN videos :
             /\ \E j \in (iv.gi + 1)..Len(Guilds) : p \in Selected(Guilds[j], clock)
             /\ videos[p].alert_channel \in liveChans}

\* C10: a tick of either evaluator returns only when no pair is left to
\* process: a failure on one pair does not end the tick before the others.
C10_TickFinishesAllPairs ==
    [][/\ (kst.pc # "idle" /\ kst'.pc = "idle") => KstRemaining = {}
       /\ (iv.pc # "idle" /\ iv'.pc = "idle") => IvRemaining = {}]_vars

\* process proc holds fetched views of pair p that it has not yet persisted:
\* it is suspended in a send of its evaluation of p
Evaluating(proc, p) ==
    /\ proc.pc \in {"send_stats", "send_ms", "send"}
    /\ Head(proc.queue).pair = p

\* C11: no two of kst_tracker, interval_checker and the command in flight are
\* in the middle of an evaluation of the same pair at the same time.
C11_NoOverlappingEvaluation ==
    \A p \in Pairs :
        /\ ~(Evaluating(kst, p) /\ Evaluating(iv, p))
        /\ ~(Evaluating(kst, p) /\ Evaluating(cmd, p))
        /\ ~(Evaluating(iv, p) /\ Evaluating(cmd, p))

\* C12: every intervals row and every milestones row has a videos row with
\* the same (guild_id, video_id).
C12_NoOrphanRows ==
    /\ DOMAIN intervals \subseteq DOMAIN videos
    /\ DOMAIN milestones \subseteq DOMAIN videos

KstCompares(p, V) ==
    \/ /\ kst.pc = "send_stats" /\ Head(kst.queue).pair = p /\ kst.views = V
       /\ KstSendStats(TRUE)
    \/ /\ kst.pc = "fetch" /\ Head(kst.queue).pair = p
       /\ Head(kst.queue).alert_channel \notin liveChans \cup {NoChannel}
       /\ KstFetch(V)
\* the step in which interval_checker compares the views V it fetched for p with last_million
IvCompares(p, V) ==
    /\ iv.pc = "fetch" /\ Head(iv.queue).pair = p
    /\ IvFetch(V)
\* the outcome of a comparison by a coroutine that goes from proc to next: a
\* crossing is notified or at least recorded, no crossing changes nothing
CrossingHandled(next, p, V) ==
    IF Tier(V) > milestones[p].last_million
    THEN \/ next.pc = "send_ms" /\ Head(next.queue).pair = p
         \/ p \in DOMAIN milestones' /\ milestones'[p].last_million = Tier(V)
    ELSE /\ ~(next.pc = "send_ms" /\ Head(next.queue).pair = p)
         /\ milestones' = milestones
\* the step that resumes a coroutine from the milestone send of p
AfterMilestoneSend(proc, p) ==
    proc.pc = "send_ms" /\ Head(proc.queue).pair = p

\* C14: an evaluation that observes V for a pair with last_million = L goes to
\* the milestone send or records tier(V) exactly when tier(V) > L, and the
\* step after the send leaves last_million = tier(V), so that the same V
\* gives no crossing afterwards.
C14_CrossingIffTierAbove ==
    [][\A p \in Pairs :
          /\ \A V \in ViewSamples :
                p \in DOMAIN milestones =>
                    /\ KstCompares(p, V) => CrossingHandled(kst', p, V)
                    /\ IvCompares(p, V) => CrossingHandled(iv', p, V)
          /\ (AfterMilestoneSend(kst, p) /\ kst' # kst /\ p \in DOMAIN milestones')
                => milestones'[p].last_million = Tier(kst.views)
          /\ (AfterMilestoneSend(iv, p) /\ iv' # iv /\ p \in DOMAIN milestones')
                => milestones'[p].last_million = Tier(iv.views)]_vars

\* C15: an evaluation that finds a crossing for a pair whose ping is cleared
\* sends no milestone notification and still stores last_million = tier(views).
C15_ClearedPingStillAdvances ==
    [][\A p \in Pairs : \A V \in ViewSamples :
          (/\ p \in DOMAIN milestones
           /\ milestones[p].ping = NoChannel
           /\ Tier(V) > milestones[p].last_million
           /\ KstCompares(p, V) \/ IvCompares(p, V))
              => /\ msSent' = msSent
                 /\ kst'.pc # "send_ms" /\ iv'.pc # "send_ms"
                 /\ milestones'[p].last_million = Tier(V)]_vars

C17_OneNotificationFinalTier ==
    [][/\ KstSendMs(TRUE) => msSent' = SentOne(Head(kst.queue).pair, Tier(kst.views))
       /\ IvSendMs(TRUE) => msSent' = SentOne(Head(iv.queue).pair, Tier(iv.views))
       /\ \A k \in DOMAIN msSent' :
             (k \notin DOMAIN msSent \/ msSent'[k] # msSent[k])
                 => \/ AfterMilestoneSend(kst, k[1]) /\ k[2] = Tier(kst.views)
                    \/ AfterMilestoneSend(iv, k[1]) /\ k[2] = Tier(iv.views)]_vars

\* a pair last observed below the first million was then observed two tiers
\* up, and the one notification of that check names tier 2
C17_Witness ==
    /\ iv.pc = "send"
    /\ LET p == Head(iv.queue).pair IN
       /\ p \in DOMAIN intervals /\ p \in DOMAIN milestones
       /\ intervals[p].last_interval_run # NULL
       /\ Tier(intervals[p].last_interval_views) = 0
       /\ Tier(iv.views) = 2
       /\ milestones[p].last_million = 2
       /\ {k \in DOMAIN msSent : k[1] = p} = {<<p, 2>>}
       /\ msSent[<<p, 2>>] = 1

\* C18: /disableinterval sets hours to 0 and keeps last_interval_run and
\* last_interval_views; /setinterval on a disabled pair that has run before
\* makes it active with the same last_interval_run and last_interval_views.
C18_ReenableKeepsHistory ==
    [][\A p \in Pairs :
          p \in DOMAIN intervals =>
              /\ DisableInterval(p[1], p[2]) =>
                    /\ intervals'[p].hours = 0
                    /\ intervals'[p].last_interval_run = intervals[p].last_interval_run
                    /\ intervals'[p].last_interval_views = intervals[p].last_interval_views
              /\ \A h \in HoursSamples :
                    (/\ intervals[p].hours = 0
                     /\ intervals[p].last_interval_run # NULL
                     /\ SetInterval(p[1], p[2], h))
                        => /\ intervals'[p].hours = h
                           /\ intervals'[p].last_interval_run = intervals[p].last_interval_run
                           /\ intervals'[p].last_interval_views =
                                  intervals[p].last_interval_views]_vars

\* the reference-zone minute is a checkpoint: minute 0 of hour 0, 12 or 17
AtCheckpoint ==
    /\ clock % MinutesPerHour = 0
    /\ (clock \div MinutesPerHour) % HoursPerDay \in {0, 12, 17}

\* C19: an iteration of kst_tracker starts the refresh of the catalog exactly
\* when the minute is a checkpoint; at any other minute it fetches nothing,
\* writes nothing and sends nothing, so the coroutine is in a firing only at
\* a checkpoint.
C19_FiresOnlyAtCheckpoints ==
    /\ [][KstStart =>
            IF AtCheckpoint
            THEN (DOMAIN videos # {}) => kst'.pc = "fetch"
            ELSE kst' = Idle /\ db' = db /\ msSent' = msSent]_vars
    /\ [](kst.pc # "idle" => AtCheckpoint)

\* a firing is under way at a checkpoint
C19_Witness ==
    /\ kst.pc = "send_stats"
    /\ AtCheckpoint

\* C20: in a firing every video whose fetch is available has its stats message
\* sent when its channel exists and its kst_last_views set to the fetched
\* views, and the firing ends only when no tracked video is left.
C20_FiringReachesEveryVideo ==
    [][/\ \A r \in ViewSamples :
             KstFetch(r) =>
                 LET cur == Head(kst.queue) IN
                 IF cur.alert_channel \in liveChans
                 THEN kst'.pc = "send_stats" /\ Head(kst'.queue) = cur
                 ELSE /\ cur.pair \in DOMAIN intervals'
                      /\ intervals'[cur.pair].kst_last_views = r
       /\ KstSendStats(TRUE) =>
             /\ Head(kst.queue).pair \in DOMAIN intervals'
             /\ intervals'[Head(kst.queue).pair].kst_last_views = kst.views
       /\ (kst.pc # "idle" /\ kst'.pc = "idle") => KstRemaining = {}]_vars

\* the rows of a report's input that are within the window of their next target
NearTarget(views) ==
    {i \in 1..Len(views) :
        /\ views[i] # Unavailable
        /\ LET next_target == ((views[i] \div 1000000) + 1) * 1000000 IN
           0 < next_target - views[i] /\ next_target - views[i] <= 100000}
Rows(lines) == {lines[j].row : j \in 1..Len(lines)}
PagedRows(pages) == UNION {Rows(pages[j]) : j \in 1..Len(pages)}

C23_TenNearest ==
    ret.op = "digest" =>
        /\ Len(ret.lines) <= 10
        /\ \A j \in 1..Len(ret.lines) : \A e \in NearTarget(ret.views) \ Rows(ret.lines) :
              ret.lines[j].diff <= ((ret.views[e] \div 1000000) + 1) * 1000000 - ret.views[e]

\* C23 as the code has it: the digest lists at most 10 videos, and when more
\* than 10 qualify the listed ones are the first 10 qualifying videos in the
\* order the guild's rows are read.
C23_FirstTenInRowOrder ==
    ret.op = "digest" =>
        /\ Len(ret.lines) <= 10
        /\ Len(ret.lines) = (IF Cardinality(NearTarget(ret.views)) < 10
                             THEN Cardinality(NearTarget(ret.views)) ELSE 10)
        /\ Rows(ret.lines) \subseteq NearTarget(ret.views)
        /\ \A j \in 1..Len(ret.lines) :
              /\ j > 1 => ret.lines[j - 1].row < ret.lines[j].row
              /\ \A e \in NearTarget(ret.views) \ Rows(ret.lines) : ret.lines[j].row < e

\* eleven videos qualify and the eleventh, the nearest, is left out
C23_Witness ==
    /\ ret.op = "digest"
    /\ Len(ret.views) = 11
    /\ \A i \in 1..10 : ret.views[i] = 950000
    /\ ret.views[11] = 999999
    /\ Rows(ret.lines) = 1..10

\* the guild whose videos the firing is processing
KstGuild == Guilds[kst.gi]
\* the firing leaves the guild it is processing without sending its digest
LeavesGuildWithoutDigest ==
    /\ kst.pc \in {"fetch", "send_stats", "send_ms"}
    /\ kst' # kst
    /\ (kst'.pc = "idle" \/ kst'.gi # kst.gi)

\* C22: in a firing, a guild that has an upcoming_alerts row and a video that
\* qualified gets its digest message (the firing does not leave the guild
\* without sending it); a digest is sent only for a guild with a row and a
\* qualifying video, once per guild, and lists videos of that guild only.
C22_OneDigestPerGuild ==
    [][/\ LeavesGuildWithoutDigest =>
             ~(/\ kst.up # <<>>
               /\ KstGuild \in DOMAIN upcoming_alerts
               /\ upcoming_alerts[KstGuild].channel_id \in liveChans)
       /\ (kst.pc # "send_digest" /\ kst'.pc = "send_digest") =>
             /\ Guilds[kst'.gi] \in DOMAIN upcoming_alerts
             /\ kst'.up # <<>>
             /\ \A i \in 1..Len(kst'.up) : kst'.up[i][1] = Guilds[kst'.gi]
       /\ (kst.pc = "send_digest" /\ kst' # kst) =>
             (kst'.pc = "idle" \/ kst'.gi > kst.gi)]_vars

\* a failure in this step of kst_tracker: a malformed stored channel, a
\* rejected stats send, a rejected digest send
KstFailure ==
    \/ \E r \in ViewSamples : KstFetch(r) /\ Head(kst.queue).alert_channel = NoChannel
    \/ KstSendStats(FALSE)
    \/ KstSendDigest(FALSE)
\* the states in which a loop's handler is running or has returned
KstStates == {"idle", "fetch", "send_stats", "send_ms", "send_digest"}
IvStates == {"idle", "fetch", "send_ms", "send"}

\* C26: a failure inside a tick of kst_tracker or interval_checker (fetch
\* unavailable, channel missing, send rejected, malformed stored channel)
\* never leaves the handler by an exception: the step in which it occurs
\* either goes on with the tick or returns, and the loop is never stopped.
C26_TickNeverRaises ==
    /\ [][/\ KstFailure => kst' = Idle
          /\ IvSend(FALSE) => iv' = Idle
          /\ (KstSendMs(FALSE) \/ KstFetch(Unavailable)) => kst'.pc \in KstStates
          /\ (IvSendMs(FALSE) \/ IvFetch(Unavailable)) => iv'.pc \in IvStates]_vars
    /\ [](kst.pc \in KstStates /\ iv.pc \in IvStates)

\* interval_checker has returned from this minute's tick although a pair with
\* an earlier completed cycle was due, registered with an existing channel and
\* not reported unavailable: the tick was ended by a failure, and returned
C26_Witness ==
    /\ ivRan /\ iv.pc = "idle"
    /\ \E x \in lastOk :
          LET p == x[1] IN
          /\ p \in DOMAIN intervals /\ p \in DOMAIN videos
          /\ intervals[p].last_interval_run = x[2]
          /\ IsDue(intervals[p], clock)
          /\ videos[p].alert_channel \in liveChans
          /\ <<p, clock>> \notin owed

\* an active, due pair of a registered video whose channel exists
Eligible(p) ==
    /\ p \in DOMAIN intervals /\ p \in DOMAIN videos
    /\ IsDue(intervals[p], clock)
    /\ videos[p].alert_channel \in liveChans

\* C28: an active pair that is due when a tick of interval_checker is about
\* to start, with its channel existing, has its evaluation begun (its stats
\* are fetched), unless a command or a channel deletion ends its eligibility
\* first, whatever other rows the store holds.
C28_EligiblePairIsReached ==
    \A p \in Pairs :
        (~ivRan /\ iv.pc = "idle" /\ Eligible(p))
            ~> ((iv.pc = "fetch" /\ Head(iv.queue).pair = p) \/ ~Eligible(p))

\* table tbl holds the same row, or no row, under key k before and after the step
SameRow(tbl, tblNext, k) ==
    /\ (k \in DOMAIN tbl) = (k \in DOMAIN tblNext)
    /\ k \in DOMAIN tbl => tblNext[k] = tbl[k]
\* the step leaves every row of every guild but g as it is
OtherGuildsUnchanged(g) ==
    /\ \A p \in Pairs :
          p[1] # g => /\ SameRow(videos, videos', p)
                      /\ SameRow(intervals, intervals', p)
                      /\ SameRow(milestones, milestones', p)
    /\ \A h \in GuildSet \ {g} :
          /\ SameRow(upcoming_alerts, upcoming_alerts', h)
          /\ rowids'[h] = rowids[h]
\* a command invoked in guild g that runs without an await
CommandIn(g) ==
    \/ SetUpcomingAlert(g)
    \/ \E v \in VideosOf(g) :
          \/ AddVideo(g, v) \/ RemoveVideo(g, v)
          \/ SetMilestone(g, v) \/ RemoveMilestones(g, v)
          \/ DisableInterval(g, v)
          \/ \E h \in HoursSamples : SetInterval(g, v, h)

\* C29: a command invoked in guild A, and a step of kst_tracker,
\* interval_checker, /forcecheck, /viewsall or /checkintervals working on
\* guild A, leaves the rows of every other guild unchanged, also those with
\* the same video_id; /removevideo in A removes nothing of B.
C29_GuildIsolation ==
    [][/\ \A g \in GuildSet : CommandIn(g) => OtherGuildsUnchanged(g)
       /\ (cmd.pc # "idle" /\ cmd' # cmd) => OtherGuildsUnchanged(cmd.g)
       /\ (kst.pc # "idle" /\ kst' # kst) => OtherGuildsUnchanged(KstGuild)
       /\ (iv.pc # "idle" /\ iv' # iv) => OtherGuildsUnchanged(Guilds[iv.gi])]_vars

\* the firing has written the views of g1's v1 and gone on to g1's next
\* video, and the active interval g2 holds for the same video_id is untouched
C29_Witness ==
    /\ kst.pc = "fetch" /\ kst.gi = 1
    /\ <<"g1", "v1">> \in DOMAIN intervals /\ <<"g2", "v1">> \in DOMAIN intervals
    /\ intervals[<<"g1", "v1">>].kst_last_views \in ViewSamples
    /\ intervals[<<"g2", "v1">>].hours > 0
    /\ intervals[<<"g2", "v1">>].kst_last_views = 0

\* ---- claims about the command boundary (SpecBoundary) ----

\* the commands that take a "YouTube URL or video ID"
IdCommands == {"addvideo", "removevideo", "setmilestone", "removemilestones",
               "setinterval", "disableinterval"}
\* register_video, set_interval, set_milestone, set_upcoming_alert, disable_interval, remove_video
WriteCommands == {"addvideo", "setinterval", "setmilestone", "setupcomingmilestonesalert",
                  "disableinterval", "removevideo"}
\* the input holds a supported URL form followed by an id, or is (blanks aside) a bare id
WellFormed(u) ==
    LET t == Strip(u) IN
    \/ \E i \in 1..(Len(t) - 1) : t[i] \in UrlPrefixes /\ t[i + 1] \in Videos
    \/ Len(t) = 1 /\ t[1] \in Videos
StoreUnchanged == UNCHANGED <<videos, rowids, intervals, milestones, upcoming_alerts>>

\* C24: a command reports success to its caller only if every store write it made
\* returned success.
C24_SuccessOnlyAfterWrite ==
    (ret.op \in WriteCommands /\ ret.reply = "ok") =>
        \A i \in DOMAIN ret.db : ~ret.db[i].fetch => ret.db[i].ret = DbTrue

\* C25: db_execute never raises to its caller; when the underlying operation fails it
\* returns an empty list for a read and False for a write, and it returns True only
\* after the write has been committed.
C25_DbExecuteContract ==
    ret.op \in (IdCommands \cup WriteCommands) =>
        /\ ret.reply = "raised" => ret.db = <<>>
        /\ \A i \in DOMAIN ret.db :
              LET e == ret.db[i] IN
              /\ (e.at # "none" /\ e.fetch) => e.ret = [type |-> "list", value |-> 0]
              /\ (e.at # "none" /\ ~e.fetch) => e.ret = [type |-> "bool", value |-> 0]
              /\ e.ret = [type |-> "bool", value |-> 1] => (~e.fetch /\ e.applied)
\* a /setupcomingmilestonesalert whose INSERT OR REPLACE failed in execute: db_execute
\* gave False and nothing was stored
C25_Witness ==
    /\ ret.op = "setupcomingmilestonesalert"
    /\ ret.db[1].at = "execute"
    /\ ret.db[1].ret = DbFalse
    /\ DOMAIN upcoming_alerts = {}

\* C27: /setinterval with a period below one minute, and any command given a malformed
\* video identifier, is rejected with the store left unchanged.
C27_RejectedAtBoundary ==
    [][(/\ ncmd' = ncmd + 1
        /\ ret'.op \in IdCommands
        /\ \/ ~WellFormed(ret'.arg)
           \/ ret'.op = "setinterval" /\ ret'.hours < 1)
       => (StoreUnchanged /\ ret'.reply \in {"invalid", "min"})]_vars
\* a zero-minute /setinterval for a video that already has an interval row
C27_Witness ==
    /\ ret.op = "setinterval"
    /\ ret.hours = 0
    /\ ret.reply = "min"
    /\ WellFormed(ret.arg)
    /\ <<"g1", "v1">> \in DOMAIN intervals
    /\ intervals[<<"g1", "v1">>].hours = 1

\* C30: extract_video_id returns the id for a supported URL form and for a bare
\* 11-character id, and the empty string, without raising, for every other input: a
\* command accepts the former and answers "Invalid URL/ID" to the latter.
C30_BareIdAccepted ==
    (ret.op \in IdCommands /\ ret.reply # "min") =>
        IF WellFormed(ret.arg)
        THEN ret.reply \notin {"invalid", "raised"}
        ELSE ret.reply = "invalid"

====
